---- MODULE Spec2Model ----
(***************************************************************************)
(* hocr-parser: hOCR markup -> tree of nodes -> reconstructed text.        *)
(*                                                                         *)
(* Three trees are modelled:                                               *)
(*   HOCRParser / HOCRNode            src/hocr_parser/parser.py            *)
(*   HOCRDocument / HOCRElement       src/hocr_parser/past.py (compat)     *)
(*   HOCRDocument / Page .. Word      src/src/hocr_parser/parser.py        *)
(*                                                                         *)
(* Strings are sequences of one-character strings.  The markup tree that   *)
(* BeautifulSoup hands over is the input: a function from element index    *)
(* (0 is the BeautifulSoup object itself) to the element's tag, attributes *)
(* and contents.                                                           *)
(***************************************************************************)
EXTENDS Integers, Sequences, FiniteSets, TLC

\* ------------------------------------------------------------------------
\* Characters and the str methods the code calls
\* ------------------------------------------------------------------------

\* Python's None, for an attribute or a field that is absent.
None == "<None>"

\* "^2" stands for the one character U+00B2 (superscript two): str.isdigit()
\* accepts it, float() does not.
Digits == {"0", "1", "2", "3", "4", "5", "6", "7", "8", "9"}

DigitVal(c) ==
    CASE c = "0" -> 0 [] c = "1" -> 1 [] c = "2" -> 2 [] c = "3" -> 3
      [] c = "4" -> 4 [] c = "5" -> 5 [] c = "6" -> 6 [] c = "7" -> 7
      [] c = "8" -> 8 [] c = "9" -> 9

IsSpace(c) == c \in {" ", "\t", "\n"}

\* \w of the re module: alphanumerics (str.isalnum) and the underscore.
\* Of the characters the model uses, these are not: whitespace ; . -
IsWordChar(c) == ~IsSpace(c) /\ c \notin {";", ".", "-"}

\* str.isdigit() on one character.
IsDigitChar(c) == c \in Digits \/ c = "^2"

\* str.lower() on one character.
LowerChar(c) ==
    CASE c = "X" -> "x" [] c = "W" -> "w" [] c = "C" -> "c" [] c = "O" -> "o"
      [] c = "N" -> "n" [] c = "F" -> "f" [] c = "B" -> "b" [] c = "L" -> "l"
      [] c = "P" -> "p" [] c = "S" -> "s" [] c = "A" -> "a"
      [] OTHER -> c

Lower(s) == [i \in 1..Len(s) |-> LowerChar(s[i])]

IsDigit(s) == Len(s) > 0 /\ \A i \in 1..Len(s) : IsDigitChar(s[i])

RECURSIVE LStrip(_)
LStrip(s) == IF s # <<>> /\ IsSpace(Head(s)) THEN LStrip(Tail(s)) ELSE s

RECURSIVE RStrip(_)
RStrip(s) ==
    IF s # <<>> /\ IsSpace(s[Len(s)]) THEN RStrip(SubSeq(s, 1, Len(s) - 1)) ELSE s

\* str.strip()
Strip(s) == RStrip(LStrip(s))

\* str.split(sep) for a one-character sep: every sep cuts, empty pieces stay.
RECURSIVE SplitChar(_, _, _)
SplitChar(s, sep, cur) ==
    IF s = <<>> THEN <<cur>>
    ELSE IF Head(s) = sep THEN <<cur>> \o SplitChar(Tail(s), sep, <<>>)
    ELSE SplitChar(Tail(s), sep, Append(cur, Head(s)))

\* str.split() without arguments: runs of whitespace cut, no empty pieces.
RECURSIVE SplitWs(_, _)
SplitWs(s, cur) ==
    IF s = <<>> THEN (IF cur = <<>> THEN <<>> ELSE <<cur>>)
    ELSE IF IsSpace(Head(s))
         THEN (IF cur = <<>> THEN <<>> ELSE <<cur>>) \o SplitWs(Tail(s), <<>>)
    ELSE SplitWs(Tail(s), Append(cur, Head(s)))

\* sep.join(parts)
RECURSIVE Join(_, _)
Join(sep, parts) ==
    IF parts = <<>> THEN <<>>
    ELSE IF Len(parts) = 1 THEN parts[1]
    ELSE parts[1] \o sep \o Join(sep, Tail(parts))

\* ------------------------------------------------------------------------
\* float(), int() and the mean
\* ------------------------------------------------------------------------

RECURSIVE Pow10(_)
Pow10(k) == IF k = 0 THEN 1 ELSE 10 * Pow10(k - 1)

RECURSIVE DigitsVal(_, _)
DigitsVal(s, acc) ==
    IF s = <<>> THEN acc ELSE DigitsVal(Tail(s), 10 * acc + DigitVal(Head(s)))

CountChar(s, c) == Cardinality({i \in 1..Len(s) : s[i] = c})

\* float(s) for the strings the code passes to it.  ok = FALSE is ValueError.
\* The value is num / scale, exact (the model's numbers stay far below 2^53).
Float(s) ==
    LET neg  == s # <<>> /\ Head(s) = "-"
        body == IF neg THEN Tail(s) ELSE s
        dots == CountChar(body, ".")
        ok   == /\ body # <<>>
                /\ \A i \in 1..Len(body) : body[i] \in Digits \cup {"."}
                /\ dots <= 1
                /\ \E i \in 1..Len(body) : body[i] \in Digits
        dot  == IF dots = 1 THEN CHOOSE i \in 1..Len(body) : body[i] = "."
                ELSE Len(body) + 1
        ip   == SubSeq(body, 1, dot - 1)
        fp   == SubSeq(body, dot + 1, Len(body))
        mag  == DigitsVal(ip, 0) * Pow10(Len(fp)) + DigitsVal(fp, 0)
    IN  IF ok THEN [ok |-> TRUE, num |-> IF neg THEN -mag ELSE mag,
                    scale |-> Pow10(Len(fp))]
        ELSE [ok |-> FALSE, num |-> 0, scale |-> 1]

\* What a build that rounds to nearest instead of truncating would give.
IntRounding(f) ==
    IF f.num >= 0 THEN (2 * f.num + f.scale) \div (2 * f.scale)
    ELSE -((2 * (-f.num) + f.scale) \div (2 * f.scale))

\* int(x) for a float x: truncation toward zero.
IntOfFloat(f) ==
    IF f.num >= 0 THEN f.num \div f.scale ELSE -((-f.num) \div f.scale)

\* int(s) for a string, as the schema tree calls it on the text before the
\* first dot.  ok = FALSE is ValueError.
IntStr(s) ==
    LET neg  == s # <<>> /\ Head(s) = "-"
        body == IF neg THEN Tail(s) ELSE s
        ok   == body # <<>> /\ \A i \in 1..Len(body) : body[i] \in Digits
    IN  IF ok THEN [ok |-> TRUE, val |-> IF neg THEN -DigitsVal(body, 0)
                                          ELSE DigitsVal(body, 0)]
        ELSE [ok |-> FALSE, val |-> 0]

RECURSIVE GCD(_, _)
GCD(a, b) == IF b = 0 THEN a ELSE GCD(b, a % b)

\* A Python float that holds the quotient n / d, kept as a reduced fraction.
Ratio(n, d) == LET g == GCD(n, d) IN
    IF g = 0 THEN [num |-> 0, den |-> 1] ELSE [num |-> n \div g, den |-> d \div g]

RECURSIVE Sum(_)
Sum(xs) == IF xs = <<>> THEN 0 ELSE Head(xs) + Sum(Tail(xs))

\* ------------------------------------------------------------------------
\* The bbox patterns
\* ------------------------------------------------------------------------

At(s, i) == IF i \in 1..Len(s) THEN s[i] ELSE ""

SpaceAt(s, i) == i \in 1..Len(s) /\ IsSpace(s[i])

WordAt(s, i) == i \in 1..Len(s) /\ IsWordChar(s[i])

\* \b between s[p-1] and s[p].
Boundary(s, p) == WordAt(s, p - 1) # WordAt(s, p)

RECURSIVE SkipWs(_, _)
SkipWs(s, q) == IF SpaceAt(s, q) THEN SkipWs(s, q + 1) ELSE q

\* End (exclusive) of the longest run of [0-9.] that starts at q.
RECURSIVE RunEnd(_, _)
RunEnd(s, q) ==
    IF q \in 1..Len(s) /\ s[q] \in Digits \cup {"."} THEN RunEnd(s, q + 1) ELSE q

SetMax(S) == CHOOSE x \in S : \A y \in S : y <= x

NoMatch == [matched |-> FALSE, groups |-> <<>>]

BBOX == <<"b", "b", "o", "x">>

\* The literal w stands in s at position p.
LiteralAt(s, p, w) ==
    /\ p >= 1
    /\ p + Len(w) - 1 <= Len(s)
    /\ \A i \in 1..Len(w) : s[p + i - 1] = w[i]

\* The k groups  \s+(-?[0-9.]+)  still to match from position q, the last one
\* followed by \b.  Greedy; only the last group can give characters back.
RECURSIVE MatchGroups(_, _, _, _)
MatchGroups(s, q, k, acc) ==
    IF ~SpaceAt(s, q) THEN NoMatch
    ELSE LET b == SkipWs(s, q)
             a == IF At(s, b) = "-" THEN b + 1 ELSE b
             e == RunEnd(s, a)
             ends == {x \in (a + 1)..e : Boundary(s, x)}
         IN  IF e = a THEN NoMatch
             ELSE IF k > 1
                  THEN MatchGroups(s, e, k - 1, Append(acc, SubSeq(s, b, e - 1)))
             ELSE IF ends = {} THEN NoMatch
             ELSE [matched |-> TRUE,
                   groups |-> Append(acc, SubSeq(s, b, SetMax(ends) - 1))]

\* The pattern of the generic tree, tried at position p.
MatchAt(s, p) ==
    IF Boundary(s, p) /\ LiteralAt(s, p, BBOX)
    THEN MatchGroups(s, p + 4, 4, <<>>)
    ELSE NoMatch

\* COORDINATES_PATTERN.search(s): the leftmost match.
COORDINATES_PATTERN_search(s) ==
    LET at == {p \in 1..Len(s) : MatchAt(s, p).matched}
    IN  IF at = {} THEN NoMatch
        ELSE MatchAt(s, CHOOSE p \in at : \A r \in at : p <= r)

\* The k groups  \s(-?[0-9.]+)  of the schema tree's pattern: one whitespace
\* character each, no \b at the end.
RECURSIVE MatchGroupsSchema(_, _, _, _)
MatchGroupsSchema(s, q, k, acc) ==
    IF ~SpaceAt(s, q) THEN NoMatch
    ELSE LET b == q + 1
             a == IF At(s, b) = "-" THEN b + 1 ELSE b
             e == RunEnd(s, a)
         IN  IF e = a THEN NoMatch
             ELSE IF k > 1
                  THEN MatchGroupsSchema(s, e, k - 1, Append(acc, SubSeq(s, b, e - 1)))
             ELSE [matched |-> TRUE, groups |-> Append(acc, SubSeq(s, b, e - 1))]

MatchAtSchema(s, p) ==
    IF LiteralAt(s, p, BBOX)
    THEN MatchGroupsSchema(s, p + 4, 4, <<>>)
    ELSE NoMatch

\* HOCRElement.COORDINATES_PATTERN.search(s) of the schema tree.
Schema_COORDINATES_PATTERN_search(s) ==
    LET at == {p \in 1..Len(s) : MatchAtSchema(s, p).matched}
    IN  IF at = {} THEN NoMatch
        ELSE MatchAtSchema(s, CHOOSE p \in at : \A r \in at : p <= r)

\* ------------------------------------------------------------------------
\* HOCRNode._parse_properties and what it calls
\* ------------------------------------------------------------------------

NoConfidence == [set |-> FALSE, num |-> 0, den |-> 1]

DefaultCoordinates == <<0, 0, 0, 0>>

\* The part of a node the title decides; exc is the exception that left the
\* constructor, None when it returned.
FreshProps == [coordinates |-> DefaultCoordinates, confidence |-> NoConfidence,
               exc |-> None]

\* HOCRNode._parse_coordinates
ParseCoordinates(st, string) ==
    LET match == COORDINATES_PATTERN_search(string)
        f == [i \in 1..4 |-> Float(match.groups[i])]
    IN  IF ~match.matched THEN st
        ELSE IF \E i \in 1..4 : ~f[i].ok THEN [st EXCEPT !.exc = "ValueError"]
        ELSE [st EXCEPT !.coordinates = [i \in 1..4 |-> IntOfFloat(f[i])]]

CONFIDENCE_KEYS == {<<"n", "l", "p">>,
                    <<"x", "_", "c", "o", "n", "f", "s">>,
                    <<"x", "_", "w", "c", "o", "n", "f">>}

\* The loop over splt[1:]: "return" when a sample is not isdigit(), ValueError
\* when float() refuses one that is.
RECURSIVE ConfidenceLoop(_, _)
ConfidenceLoop(vals, confidences) ==
    IF vals = <<>> THEN [out |-> "done", confidences |-> confidences]
    ELSE IF ~IsDigit(Head(vals)) THEN [out |-> "return", confidences |-> <<>>]
    ELSE IF ~Float(Head(vals)).ok THEN [out |-> "ValueError", confidences |-> <<>>]
    ELSE ConfidenceLoop(Tail(vals),
                        Append(confidences, IntOfFloat(Float(Head(vals)))))

\* sum(confidences) / len(confidences) with integer division.
MeanFloor(confidences) == Ratio(Sum(confidences) \div Len(confidences), 1)

\* sum(confidences) / len(confidences)
Mean(confidences) == Ratio(Sum(confidences), Len(confidences))

\* _parse_confidence that resets the confidence when the property does not
\* qualify.
ParseConfidenceClearing(st, string) ==
    LET splt == SplitWs(string, <<>>)
        loop == ConfidenceLoop(Tail(splt), <<>>)
    IN  IF ~(Len(splt) > 1) THEN [st EXCEPT !.confidence = NoConfidence]
        ELSE IF Lower(splt[1]) \notin CONFIDENCE_KEYS
             THEN [st EXCEPT !.confidence = NoConfidence]
        ELSE IF loop.out = "return" THEN [st EXCEPT !.confidence = NoConfidence]
        ELSE IF loop.out = "ValueError" THEN [st EXCEPT !.exc = "ValueError"]
        ELSE [st EXCEPT !.confidence =
                 [set |-> TRUE, num |-> Mean(loop.confidences).num,
                  den |-> Mean(loop.confidences).den]]

\* HOCRNode._parse_confidence
ParseConfidence(st, string) ==
    LET splt == SplitWs(string, <<>>)
        loop == ConfidenceLoop(Tail(splt), <<>>)
    IN  IF ~(Len(splt) > 1) THEN st
        ELSE IF Lower(splt[1]) \notin CONFIDENCE_KEYS THEN st
        ELSE IF loop.out = "return" THEN st
        ELSE IF loop.out = "ValueError" THEN [st EXCEPT !.exc = "ValueError"]
        ELSE [st EXCEPT !.confidence =
                 [set |-> TRUE, num |-> Mean(loop.confidences).num,
                  den |-> Mean(loop.confidences).den]]

\* self._properties of HOCRNode._parse_properties: "if title:" skips an absent
\* and an empty title alike (<<>> is both).
Properties(title) ==
    IF title = <<>> THEN <<>>
    ELSE LET parts == SplitChar(title, ";", <<>>)
         IN  [i \in 1..Len(parts) |-> Strip(parts[i])]

\* The loop of HOCRNode._parse_properties; an exception ends it.
RECURSIVE PropertyLoop(_, _)
PropertyLoop(st, props) ==
    IF props = <<>> \/ st.exc # None THEN st
    ELSE LET c == ParseCoordinates(st, Head(props))
         IN  IF c.exc # None THEN c
             ELSE PropertyLoop(ParseConfidence(c, Head(props)), Tail(props))

ParseProperties(title) == PropertyLoop(FreshProps, Properties(title))

\* The title part of HOCRElement._parse of the schema tree: the whole title is
\* searched, each number is int() of the text before its first dot.
SchemaParseTitle(title) ==
    LET match == Schema_COORDINATES_PATTERN_search(title)
        n == [i \in 1..4 |-> IntStr(SplitChar(match.groups[i], ".", <<>>)[1])]
    IN  IF ~match.matched THEN FreshProps
        ELSE IF \E i \in 1..4 : ~n[i].ok THEN [FreshProps EXCEPT !.exc = "ValueError"]
        ELSE [FreshProps EXCEPT !.coordinates = [i \in 1..4 |-> n[i].val]]

\* ------------------------------------------------------------------------
\* The markup tree (BeautifulSoup's output) and the bs4 calls the code makes
\* ------------------------------------------------------------------------

\* An entry of Tag.contents: a NavigableString (str) or a Tag (el, an index
\* into the markup).
StrItem(s) == [kind |-> "NavigableString", str |-> s, el |-> 0]

TagItem(e) == [kind |-> "Tag", str |-> <<>>, el |-> e]

\* Index of the BeautifulSoup object, the top of every markup.
SoupObject == 1

\* Tag.descendants restricted to Tags, in document order.
RECURSIVE DescendantTags(_, _)
DescendantTags(h, items) ==
    IF items = <<>> THEN <<>>
    ELSE LET it == Head(items)
         IN  (IF it.kind = "Tag"
              THEN <<it.el>> \o DescendantTags(h, h[it.el].contents)
              ELSE <<>>) \o DescendantTags(h, Tail(items))

\* Tag._all_strings(strip=True): every string below, stripped, empty ones
\* left out.
RECURSIVE AllStringsStripped(_, _)
AllStringsStripped(h, items) ==
    IF items = <<>> THEN <<>>
    ELSE LET it == Head(items)
         IN  (IF it.kind = "Tag" THEN AllStringsStripped(h, h[it.el].contents)
              ELSE IF Strip(it.str) = <<>> THEN <<>>
              ELSE <<Strip(it.str)>>) \o AllStringsStripped(h, Tail(items))

\* Tag._all_strings(): every string below, as it is.
RECURSIVE AllStrings(_, _)
AllStrings(h, items) ==
    IF items = <<>> THEN <<>>
    ELSE LET it == Head(items)
         IN  (IF it.kind = "Tag" THEN AllStrings(h, h[it.el].contents)
              ELSE <<it.str>>) \o AllStrings(h, Tail(items))

\* get_text() without strip=True.
GetTextUnstripped(h, e) == Join(<<>>, AllStrings(h, h[e].contents))

\* self._html.get_text(strip=True)
GetTextStrip(h, e) == Join(<<>>, AllStringsStripped(h, h[e].contents))

\* find_all(tag, {"class": html_class}, recursive=False): direct children only.
FindAllDirect(h, e, tag, html_class) ==
    LET kids == SelectSeq(h[e].contents, LAMBDA it : it.kind = "Tag")
        els  == [i \in 1..Len(kids) |-> kids[i].el]
    IN  SelectSeq(els, LAMBDA d : /\ h[d].tag = tag
                                  /\ \E i \in 1..Len(h[d].class) :
                                        h[d].class[i] = html_class)

\* find_all(tag, {"class": html_class}): the descendants with that tag that
\* have html_class among their classes, in document order.
FindAll(h, e, tag, html_class) ==
    SelectSeq(DescendantTags(h, h[e].contents),
              LAMBDA d : /\ h[d].tag = tag
                         /\ \E i \in 1..Len(h[d].class) : h[d].class[i] = html_class)

\* html.body: the first Tag named body, None (0) when there is none.
Body(h) ==
    LET found == SelectSeq(DescendantTags(h, h[SoupObject].contents),
                           LAMBDA d : h[d].tag = "body")
    IN  IF found = <<>> THEN 0 ELSE found[1]

\* ------------------------------------------------------------------------
\* Nodes
\* ------------------------------------------------------------------------

GenericClasses == {"HOCRNode", "HOCRElement"}

\* _child_node_class of the schema tree.
ChildNodeClass(cls) ==
    CASE cls = "HOCRDocument" -> "Page"
      [] cls = "Page" -> "Area"
      [] cls = "Area" -> "Paragraph"
      [] cls = "Paragraph" -> "Line"
      [] cls = "Line" -> "Word"
      [] cls = "Word" -> None

HTML_TAG(cls) ==
    CASE cls = "Page" -> "div" [] cls = "Area" -> "div" [] cls = "Paragraph" -> "p"
      [] cls = "Line" -> "span" [] cls = "Word" -> "span"

HTML_CLASS(cls) ==
    CASE cls = "Page" -> "ocr_page" [] cls = "Area" -> "ocr_carea"
      [] cls = "Paragraph" -> "ocr_par" [] cls = "Line" -> "ocr_line"
      [] cls = "Word" -> "ocrx_word"

\* self._html.attrs.get("class", [""])[0]
OcrClass(h, e) == IF h[e].class = <<>> THEN "" ELSE h[e].class[1]

\* The title part of _parse, by the class of the node.
ParseTitle(cls, title) ==
    IF cls \in GenericClasses THEN ParseProperties(title) ELSE SchemaParseTitle(title)

\* The node object once the title is parsed into st.  The schema tree's nodes
\* have no ocr_class, properties or confidence; the fields stay blank there.
NodeObject(h, cls, e, parent, st) ==
    [cls |-> cls, html |-> e, parent |-> parent, children |-> <<>>,
     id |-> h[e].id,
     ocr_class |-> IF cls \in GenericClasses THEN OcrClass(h, e) ELSE "",
     properties |-> IF cls \in GenericClasses THEN Properties(h[e].title) ELSE <<>>,
     coordinates |-> st.coordinates,
     confidence |-> st.confidence]

\* What the child loop of _parse will go through.
ChildWork(h, cls, e) ==
    IF cls \in GenericClasses THEN h[e].contents
    ELSE IF ChildNodeClass(cls) = None THEN <<>>
    ELSE LET found == FindAll(h, e, HTML_TAG(ChildNodeClass(cls)),
                              HTML_CLASS(ChildNodeClass(cls)))
         IN  [i \in 1..Len(found) |-> TagItem(found[i])]

CHILD_STRING_SEPARATORS(ocr_class) ==
    CASE ocr_class = "ocr_page" -> <<"\n", "\n">>
      [] ocr_class = "ocr_area" -> <<"\n">>
      [] ocr_class = "ocr_par"  -> <<"\n">>
      [] ocr_class = "ocr_line" -> <<" ">>
      [] OTHER -> <<"\n">>

\* HOCRNode.ocr_text of node n of the tree ns built over the markup h.
RECURSIVE OcrText(_, _, _)
OcrText(ns, h, n) ==
    IF Len(ns[n].children) = 0 THEN GetTextStrip(h, ns[n].html)
    ELSE Join(CHILD_STRING_SEPARATORS(ns[n].ocr_class),
              [i \in 1..Len(ns[n].children) |-> OcrText(ns, h, ns[n].children[i])])

\* HOCRElement.__eq__ between two HOCRElement nodes.
Eq(a, b) == a.id = b.id

\* Tag.string: the string of a Tag whose only content is a string, the
\* .string of its only child when that is a Tag, None otherwise.
RECURSIVE TagString(_, _)
TagString(h, e) ==
    IF Len(h[e].contents) # 1 THEN None
    ELSE IF h[e].contents[1].kind = "NavigableString" THEN h[e].contents[1].str
    ELSE TagString(h, h[e].contents[1].el)

\* The string each role of the schema tree puts between its children's texts.
SchemaSeparator(cls) ==
    CASE cls = "HOCRDocument" -> <<"\n", "\n">>
      [] cls = "Page" -> <<"\n", "\n">>
      [] cls = "Area" -> <<"\n">>
      [] cls = "Paragraph" -> <<"\n">>
      [] cls = "Line" -> <<" ">>

\* ocr_text in the schema tree: a Word gives the .string of its element or
\* "", every other role joins its children's texts.
RECURSIVE SchemaOcrText(_, _, _)
SchemaOcrText(ns, h, n) ==
    IF ns[n].cls = "Word"
    THEN IF TagString(h, ns[n].html) = None THEN <<>> ELSE TagString(h, ns[n].html)
    ELSE Join(SchemaSeparator(ns[n].cls),
              [i \in 1..Len(ns[n].children) |-> SchemaOcrText(ns, h, ns[n].children[i])])

\* ------------------------------------------------------------------------
\* prettify() followed by a parse of its output
\* ------------------------------------------------------------------------

\* prettify() puts every start tag, end tag and non-blank string on a line of
\* its own, the string stripped, and drops blank strings; the parser then
\* reads the line breaks and the indentation back as strings.  pending is the
\* whitespace met since the last Tag.
RECURSIVE PrettyContents(_, _)
PrettyContents(items, pending) ==
    IF items = <<>> THEN <<StrItem(pending \o <<" ">>)>>
    ELSE LET it == Head(items)
         IN  IF it.kind = "Tag"
             THEN <<StrItem(pending \o <<" ">>), it>>
                  \o PrettyContents(Tail(items), <<"\n">>)
             ELSE IF Strip(it.str) = <<>> THEN PrettyContents(Tail(items), pending)
             ELSE PrettyContents(Tail(items),
                                 pending \o <<" ">> \o Strip(it.str) \o <<"\n">>)

\* BeautifulSoup(soup.prettify(), "html.parser")
PrettifyReparse(h) ==
    [e \in 1..Len(h) |-> [h[e] EXCEPT !.contents = PrettyContents(@, <<"\n">>)]]

\* ------------------------------------------------------------------------
\* State
\* ------------------------------------------------------------------------

VARIABLES
    variant,    \* the entry point: "HOCRParser", "past.HOCRDocument" (compat
                \* layer) or "HOCRDocument" (schema tree)
    is_path,    \* the is_path argument
    readable,   \* whether open(source) succeeds
    soup,       \* the markup BeautifulSoup returns for the source
    nodes,      \* the node objects created so far
    stack,      \* the constructors in progress: node and contents still to visit
    pc,         \* "start", "building", "done" or "raised"
    exc,        \* the exception that left the constructor, None if none
    root,       \* the root attribute (a node index), 0 before it is set
    doc1        \* the finished first document, kept while a second one is built

vars == <<variant, is_path, readable, soup, nodes, stack, pc, exc, root, doc1>>

NoDoc == [nodes |-> <<>>, soup |-> <<>>, root |-> 0]

Top == stack[Len(stack)]

\* The stack with the first entry of the innermost loop consumed.
Advance == [stack EXCEPT ![Len(stack)].todo = Tail(@)]

\* The constructor either raises what the title parse raised (st.exc), which
\* leaves the whole construction, or stores the node and enters its loop.
Constructed(ns, stk, cls, e, parent, st) ==
    IF st.exc # None
    THEN /\ pc' = "raised"
         /\ exc' = st.exc
         /\ nodes' = <<>>
         /\ stack' = <<>>
    ELSE /\ pc' = "building"
         /\ exc' = exc
         /\ nodes' = Append(ns, NodeObject(soup, cls, e, parent, st))
         /\ stack' = Append(stk, [node |-> Len(ns) + 1,
                                  todo |-> ChildWork(soup, cls, e)])

\* A constructor call cls(e, parent=parent) up to its child loop (__init__
\* and the attribute part of _parse), entered with node store ns and call
\* stack stk.
Construct(ns, stk, cls, e, parent) ==
    Constructed(ns, stk, cls, e, parent, ParseTitle(cls, soup[e].title))

\* open(source) fails: the exception leaves __init__.
OpenFails ==
    /\ pc = "start"
    /\ is_path /\ ~readable
    /\ pc' = "raised"
    /\ exc' = "IOError"
    /\ UNCHANGED <<variant, is_path, readable, soup, nodes, stack, root, doc1>>

\* HOCRParser.__init__ when html.body is None: HOCRNode(None) reads
\* self._html.attrs.
NoBody ==
    /\ pc = "start"
    /\ variant \in {"HOCRParser", "past.HOCRDocument"}
    /\ is_path => readable
    /\ Body(soup) = 0
    /\ pc' = "raised"
    /\ exc' = "AttributeError"
    /\ UNCHANGED <<variant, is_path, readable, soup, nodes, stack, root, doc1>>

\* HOCRParser.__init__: self.root = HOCRNode(html.body)
ParserRoot ==
    /\ pc = "start"
    /\ variant \in {"HOCRParser", "past.HOCRDocument"}
    /\ is_path => readable
    /\ Body(soup) # 0
    /\ Construct(<<>>, <<>>, "HOCRNode", Body(soup), 0)
    /\ UNCHANGED <<variant, is_path, readable, soup, root, doc1>>

\* HOCRDocument.__init__ of the schema tree: the document node wraps the
\* BeautifulSoup object itself.
DocumentRoot ==
    /\ pc = "start"
    /\ variant = "HOCRDocument"
    /\ is_path => readable
    /\ Construct(<<>>, <<>>, "HOCRDocument", SoupObject, 0)
    /\ UNCHANGED <<variant, is_path, readable, soup, root, doc1>>

InLoop(classes) ==
    /\ pc = "building"
    /\ stack # <<>>
    /\ Top.todo # <<>>
    /\ nodes[Top.node].cls \in classes

\* _create_child_node: a NavigableString is passed over.
SkipString ==
    /\ InLoop(GenericClasses)
    /\ Head(Top.todo).kind = "NavigableString"
    /\ stack' = Advance
    /\ UNCHANGED <<variant, is_path, readable, soup, nodes, pc, exc, root, doc1>>

\* _create_child_node: a Tag without an id attribute is passed over.
SkipNoId ==
    /\ InLoop(GenericClasses)
    /\ Head(Top.todo).kind = "Tag"
    /\ soup[Head(Top.todo).el].id = None
    /\ stack' = Advance
    /\ UNCHANGED <<variant, is_path, readable, soup, nodes, pc, exc, root, doc1>>

\* _create_child_node without the has_attr("id") test.
CreateChildNodeAnyTag ==
    /\ InLoop(GenericClasses)
    /\ Head(Top.todo).kind = "Tag"
    /\ Construct(nodes, Advance, nodes[Top.node].cls, Head(Top.todo).el, Top.node)
    /\ UNCHANGED <<variant, is_path, readable, soup, root, doc1>>

\* _create_child_node: a Tag with an id gets a node of the parent's class.
CreateChildNode ==
    /\ InLoop(GenericClasses)
    /\ Head(Top.todo).kind = "Tag"
    /\ soup[Head(Top.todo).el].id # None
    /\ Construct(nodes, Advance, nodes[Top.node].cls, Head(Top.todo).el, Top.node)
    /\ UNCHANGED <<variant, is_path, readable, soup, root, doc1>>

\* The loop of the schema tree's _parse: every match gets a node of the
\* child class.
SchemaChildNode ==
    /\ InLoop({"HOCRDocument", "Page", "Area", "Paragraph", "Line", "Word"})
    /\ Construct(nodes, Advance, ChildNodeClass(nodes[Top.node].cls),
                 Head(Top.todo).el, Top.node)
    /\ UNCHANGED <<variant, is_path, readable, soup, root, doc1>>

\* A return that appends the new node to the outermost caller's children.
ReturnToOutermost ==
    /\ pc = "building"
    /\ Len(stack) >= 2
    /\ Top.todo = <<>>
    /\ nodes' = [nodes EXCEPT ![stack[1].node].children = Append(@, Top.node)]
    /\ stack' = SubSeq(stack, 1, Len(stack) - 1)
    /\ UNCHANGED <<variant, is_path, readable, soup, pc, exc, root, doc1>>

\* A child's constructor returns: the caller appends it to its children.
Return ==
    /\ pc = "building"
    /\ Len(stack) >= 2
    /\ Top.todo = <<>>
    /\ nodes' = [nodes EXCEPT ![stack[Len(stack) - 1].node].children =
                                  Append(@, Top.node)]
    /\ stack' = SubSeq(stack, 1, Len(stack) - 1)
    /\ UNCHANGED <<variant, is_path, readable, soup, pc, exc, root, doc1>>

RootReturns ==
    /\ pc = "building"
    /\ Len(stack) = 1
    /\ Top.todo = <<>>

\* The root's constructor returns and __init__ ends.
Finish ==
    /\ RootReturns
    /\ ~(variant = "past.HOCRDocument" /\ nodes[Top.node].cls = "HOCRNode")
    /\ root' = Top.node
    /\ pc' = "done"
    /\ stack' = <<>>
    /\ UNCHANGED <<variant, is_path, readable, soup, nodes, exc, doc1>>

\* past.HOCRDocument.__init__ after super().__init__: the HOCRNode tree is
\* dropped, self.root = HOCRElement(self.html.body).
Rebuild ==
    /\ RootReturns
    /\ variant = "past.HOCRDocument" /\ nodes[Top.node].cls = "HOCRNode"
    /\ Construct(<<>>, <<>>, "HOCRElement", Body(soup), 0)
    /\ UNCHANGED <<variant, is_path, readable, soup, root, doc1>>

\* doc2 = HOCRParser(soup.prettify(), is_path=False) once the document read
\* from the path is there.
Reparse ==
    /\ pc = "done"
    /\ variant = "HOCRParser"
    /\ is_path
    /\ doc1 = NoDoc
    /\ doc1' = [nodes |-> nodes, soup |-> soup, root |-> root]
    /\ soup' = PrettifyReparse(soup)
    /\ is_path' = FALSE
    /\ nodes' = <<>>
    /\ root' = 0
    /\ pc' = "start"
    /\ UNCHANGED <<variant, readable, stack, exc>>

\* ------------------------------------------------------------------------
\* Inputs: markup written down flat, in document order
\* ------------------------------------------------------------------------

\* Most markup nodes below the BeautifulSoup object (Tags and strings) in the
\* tree-shape, text and round-trip specifications.
MaxNodes == 4

\* Most Tags below the BeautifulSoup object in the freely shaped markup of the
\* schema specification.
MaxSchemaTags == 3

\* Most confidence samples in a generated confidence property.
MaxSamples == 2

Elem(tag, id, class, title) ==
    [kind |-> "Tag", tag |-> tag, id |-> id, class |-> class, title |-> title,
     str |-> <<>>]

Text(str) ==
    [kind |-> "NavigableString", tag |-> "", id |-> None, class |-> <<>>,
     title |-> <<>>, str |-> str]

TheSoup == Elem("[document]", None, <<>>, <<>>)

\* j is i or one of its ancestors under the parent map par.
RECURSIVE OnSpine(_, _, _)
OnSpine(par, i, j) ==
    IF i = j THEN TRUE ELSE IF i = 0 THEN FALSE ELSE OnSpine(par, par[i], j)

\* The parent maps of m nodes listed in document order, node 1 the top.
ParSeqs(m) ==
    {par \in [1..m -> 0..(m - 1)] :
        /\ par[1] = 0
        /\ \A i \in 2..m : par[i] \in 1..(i - 1) /\ OnSpine(par, i - 1, par[i])}

\* What a parser can produce: strings have no children and no string follows
\* a string directly.
FlatOK(par, kd) ==
    /\ \A i \in 2..Len(kd) : kd[par[i]].kind = "Tag"
    /\ \A i \in 2..(Len(kd) - 1) :
          ~(/\ kd[i].kind = "NavigableString"
            /\ kd[i + 1].kind = "NavigableString"
            /\ par[i + 1] = par[i])

IdName == <<"n1", "n2", "n3", "n4", "n5", "n6", "n7", "n8", "n9">>

\* The markup for the flat description (par, kd): Tags are numbered in
\* document order, strings live in their parent's contents.  An id of "*"
\* stands for an id of the node's own.
MkSoup(par, kd) ==
    LET m == Len(kd)
        flat == [i \in 1..m |-> i]
        tags == SelectSeq(flat, LAMBDA i : kd[i].kind = "Tag")
        Renum(i) == Cardinality({j \in 1..i : kd[j].kind = "Tag"})
        ItemOf(c) == IF kd[c].kind = "Tag" THEN TagItem(Renum(c))
                     ELSE StrItem(kd[c].str)
        KidsOf(i) == SelectSeq(flat, LAMBDA c : par[c] = i)
    IN  [k \in 1..Len(tags) |->
            LET i == tags[k]
            IN  [tag |-> kd[i].tag,
                 parent |-> IF par[i] = 0 THEN 0 ELSE Renum(par[i]),
                 id |-> IF kd[i].id = "*" THEN IdName[i] ELSE kd[i].id,
                 class |-> kd[i].class,
                 title |-> kd[i].title,
                 contents |-> [x \in 1..Len(KidsOf(i)) |-> ItemOf(KidsOf(i)[x])]]]

Start(h, v, p, r) ==
    /\ soup = h
    /\ variant = v
    /\ is_path = p
    /\ readable = r
    /\ nodes = <<>>
    /\ stack = <<>>
    /\ pc = "start"
    /\ exc = None
    /\ root = 0
    /\ doc1 = NoDoc

\* (is_path, readable): a string, a path that opens, a path that does not.
Sources == {<<FALSE, TRUE>>, <<TRUE, TRUE>>, <<TRUE, FALSE>>}

\* The starts over every markup of at most n nodes below the BeautifulSoup
\* object, the first an instance of a template in K1, the others of one in K.
FlatInit(n, K1, K, variants, sources) ==
    \E m \in 0..n :
      \E par \in ParSeqs(m + 1) :
        \E k \in [1..m -> K1 \cup K] :
          /\ \A i \in 1..m : IF i = 1 THEN k[i] \in K1 ELSE k[i] \in K
          /\ FlatOK(par, <<TheSoup>> \o k)
          /\ \E v \in variants :
               \E s \in sources :
                 Start(MkSoup(par, <<TheSoup>> \o k), v, s[1], s[2])

\* ---- tree shape: HOCRParser and the compatibility layer ----------------

TreeTemplates ==
    {Elem("body", None, <<>>, <<>>), Elem("div", "*", <<>>, <<>>),
     Elem("div", None, <<>>, <<>>), Text(<<"x">>)}

InitTree ==
    FlatInit(MaxNodes, TreeTemplates, TreeTemplates,
             {"HOCRParser", "past.HOCRDocument"}, Sources)

NextTree ==
    \/ OpenFails
    \/ NoBody
    \/ ParserRoot
    \/ SkipString
    \/ SkipNoId
    \/ CreateChildNode
    \/ Return
    \/ Finish
    \/ Rebuild

SpecTree == InitTree /\ [][NextTree]_vars

\* ---- text: HOCRParser over elements of the hOCR classes -----------------

TheBody == Elem("body", None, <<>>, <<>>)

TextTemplates ==
    {Elem("div", "*", <<c>>, <<>>) :
        c \in {"ocr_page", "ocr_carea", "ocr_par", "ocr_line", "ocrx_word"}}
    \cup {Text(<<"A">>)}

InitText ==
    FlatInit(MaxNodes, {TheBody}, TextTemplates, {"HOCRParser"}, {<<FALSE, TRUE>>})

NextText ==
    \/ ParserRoot
    \/ SkipString
    \/ CreateChildNode
    \/ Return
    \/ Finish

SpecText == InitText /\ [][NextText]_vars

\* ---- round trip: a document from a path, then its prettified form -------

RoundTripTemplates ==
    {Elem("div", "*", <<>>, <<>>), Elem("span", "*", <<"ocr_line">>, <<>>),
     Elem("b", None, <<>>, <<>>),
     Text(<<"A">>), Text(<<" ", "A", "\n">>), Text(<<"A", " ", "B">>), Text(<<" ">>)}

InitRoundTrip ==
    FlatInit(MaxNodes, {TheBody}, RoundTripTemplates, {"HOCRParser"}, {<<TRUE, TRUE>>})

NextRoundTrip ==
    \/ ParserRoot
    \/ SkipString
    \/ SkipNoId
    \/ CreateChildNode
    \/ Return
    \/ Finish
    \/ Reparse

SpecRoundTrip == InitRoundTrip /\ [][NextRoundTrip]_vars

\* ---- titles: one element with a title, under both trees -----------------

X_WCONF == <<"x", "_", "w", "c", "o", "n", "f">>

NumberTokens ==
    {<<"1">>, <<"1", ".", "9">>, <<"-", "1", ".", "2">>, <<"-", "4", ".", "8">>,
     <<"1", "0">>, <<".", "5">>, <<".">>, <<"1", ".", "2", ".", "3">>}

\* bbox properties: with and without a word before, one or two whitespace
\* characters between the numbers, and text or a second property after.
BboxTitles ==
    {prefix \o kw \o ws \o n1 \o ws \o n2 \o ws \o <<"3">> \o ws \o n4 \o suffix :
        prefix \in {<<>>, <<"f", "o", "o", " ">>},
        kw \in {BBOX, <<"b">> \o BBOX},
        ws \in {<<" ">>, <<" ", "\t">>},
        n1 \in NumberTokens,
        n2 \in {<<"2">>, <<"-", "4", ".", "8">>},
        n4 \in NumberTokens,
        suffix \in {<<>>, <<"a">>, <<" ", "b", "a", "r">>,
                    <<";", " ">> \o X_WCONF \o <<" ", "9", "0">>}}

ConfidenceKeys ==
    {X_WCONF, <<"X", "_", "W", "C", "O", "N", "F">>, <<"n", "l", "p">>,
     <<"x", "_", "c", "o", "n", "f", "s">>, <<"x", "_", "w", "c", "o", "n">>}

SampleTokens ==
    {<<"9", "0">>, <<"8", "0">>, <<"8", "1">>, <<"7">>, <<"a", "b", "c">>,
     <<"^2">>, <<"1", ".", "5">>}

RECURSIVE SpacedTokens(_)
SpacedTokens(toks) ==
    IF toks = <<>> THEN <<>> ELSE <<" ">> \o Head(toks) \o SpacedTokens(Tail(toks))

\* Confidence properties: a key and up to MaxSamples samples.
ConfidenceTitles ==
    {key \o SpacedTokens(samples) :
        key \in ConfidenceKeys,
        samples \in UNION {[1..k -> SampleTokens] : k \in 0..MaxSamples}}

Titles == {<<>>} \cup BboxTitles \cup ConfidenceTitles

\* <body><div id=.. class="ocr_page" title=T></div></body>
TitledMarkup(title) ==
    MkSoup(<<0, 1, 2>>, <<TheSoup, TheBody, Elem("div", "*", <<"ocr_page">>, title)>>)

InitTitle ==
    \E title \in Titles :
      \E v \in {"HOCRParser", "HOCRDocument"} :
        Start(TitledMarkup(title), v, FALSE, TRUE)

NextTitle ==
    \/ ParserRoot
    \/ DocumentRoot
    \/ CreateChildNode
    \/ SchemaChildNode
    \/ Return
    \/ Finish

SpecTitle == InitTitle /\ [][NextTitle]_vars

\* ---- equality: elements with and without id, compat and schema trees ----

EqTemplates ==
    {Elem("div", id, <<"ocr_page">>, <<>>) : id \in {None, "a", "b"}}

InitEq ==
    FlatInit(MaxNodes, {TheBody}, EqTemplates,
             {"past.HOCRDocument", "HOCRDocument"}, {<<FALSE, TRUE>>})

NextEq ==
    \/ ParserRoot
    \/ DocumentRoot
    \/ SkipNoId
    \/ CreateChildNode
    \/ SchemaChildNode
    \/ Return
    \/ Finish
    \/ Rebuild

SpecEq == InitEq /\ [][NextEq]_vars

\* ---- schema tree: HOCRDocument over elements of the five roles ----------

\* Elements in the nested markup of the schema specification, one inside the
\* other.
ChainDepth == 7

SchemaTemplates ==
    {Elem("div", None, <<"ocr_page">>, <<>>),
     Elem("div", None, <<"ocr_carea">>, <<>>),
     Elem("p", None, <<"ocr_par">>, <<>>),
     Elem("span", None, <<"ocr_line">>, <<>>),
     Elem("span", None, <<"ocrx_word">>, <<>>),
     Elem("div", None, <<"x", "ocr_carea">>, <<>>),
     Elem("span", None, <<"ocr_page">>, <<>>),
     Elem("div", None, <<>>, <<>>)}

\* The element a well-formed hOCR file has at nesting depth d.
RoleTemplate(d) ==
    IF d <= 1 THEN Elem("div", None, <<"ocr_page">>, <<>>)
    ELSE IF d = 2 THEN Elem("div", None, <<"ocr_carea">>, <<>>)
    ELSE IF d = 3 THEN Elem("p", None, <<"ocr_par">>, <<>>)
    ELSE IF d = 4 THEN Elem("span", None, <<"ocr_line">>, <<>>)
    ELSE Elem("span", None, <<"ocrx_word">>, <<>>)

\* ChainDepth elements, each inside the one before, the element at depth d of
\* the role of depth d or of the depth above (an element nested in one of its
\* own role).
ChainInit ==
    \E k \in [1..ChainDepth -> SchemaTemplates] :
        /\ \A d \in 1..ChainDepth : k[d] \in {RoleTemplate(d), RoleTemplate(d - 1)}
        /\ Start(MkSoup([i \in 1..(ChainDepth + 1) |-> i - 1], <<TheSoup>> \o k),
                 "HOCRDocument", FALSE, TRUE)

InitSchema ==
    \/ FlatInit(MaxSchemaTags, SchemaTemplates, SchemaTemplates,
                {"HOCRDocument"}, {<<FALSE, TRUE>>})
    \/ ChainInit

NextSchema ==
    \/ DocumentRoot
    \/ SchemaChildNode
    \/ Return
    \/ Finish

SpecSchema == InitSchema /\ [][NextSchema]_vars

\* ---- property scan: titles of several properties ------------------------

\* Most properties in a title of the scan specification.
MaxProps == 4

\* Properties with a bbox, with a confidence list, with neither, and with a
\* confidence key whose samples are missing, not digits, or refused by float().
ScanProperties ==
    {<<"b", "b", "o", "x", " ", "1", " ", "2", " ", "3", " ", "4">>,
     <<"b", "b", "o", "x", " ", "5", ".", "9", " ", "-", "6", ".", "5", " ", "7", " ", "8">>,
     <<"f", "o", "o">>,
     <<"x", "_", "w", "c", "o", "n", "f", " ", "9", "0">>,
     <<"n", "l", "p", " ", "8", "0", " ", "8", "1">>,
     <<"x", "_", "w", "c", "o", "n", "f">>,
     <<"X", "_", "W", "C", "O", "N", "F", " ", "9", "0", " ", "a", "b", "c">>,
     <<"f", "o", "o", " ", "9", "0">>,
     <<"n", "l", "p", " ", "^2">>}

RECURSIVE JoinProperties(_)
JoinProperties(props) ==
    IF props = <<>> THEN <<>>
    ELSE IF Len(props) = 1 THEN props[1]
    ELSE props[1] \o <<";", " ">> \o JoinProperties(Tail(props))

ScanTitles ==
    {JoinProperties(props) :
        props \in UNION {[1..k -> ScanProperties] : k \in 1..MaxProps}}

InitScan ==
    \E title \in ScanTitles : Start(TitledMarkup(title), "HOCRParser", FALSE, TRUE)

NextScan ==
    \/ ParserRoot
    \/ CreateChildNode
    \/ Return
    \/ Finish

SpecScan == InitScan /\ [][NextScan]_vars

\* ---- schema text: nested elements with text in them ----------------------

\* The letter of the text at depth d.
DepthLetter(d) == <<"a", "b", "c", "d", "e", "f", "g", "h", "i", "j">>[d]

\* ChainDepth elements, each inside the one before, roles as in ChainInit; the
\* elements at the depths in texts start with a text of their own, the
\* innermost holds text only.
TextChain(k, texts) ==
    <<[tag |-> "[document]", parent |-> 0, id |-> None, class |-> <<>>,
       title |-> <<>>, contents |-> <<TagItem(2)>>]>>
    \o [d \in 1..ChainDepth |->
          [tag |-> k[d].tag, parent |-> d, id |-> None, class |-> k[d].class,
           title |-> <<>>,
           contents |->
              (IF d \in texts \/ d = ChainDepth
               THEN <<StrItem(<<DepthLetter(d)>>)>> ELSE <<>>)
              \o (IF d < ChainDepth THEN <<TagItem(d + 2)>> ELSE <<>>)]]

InitWords ==
    \E own \in [1..ChainDepth -> BOOLEAN] :
      \E texts \in SUBSET (5..(ChainDepth - 1)) :
        Start(TextChain([d \in 1..ChainDepth |->
                            IF own[d] THEN RoleTemplate(d) ELSE RoleTemplate(d - 1)],
                        texts),
              "HOCRDocument", FALSE, TRUE)

NextWords ==
    \/ DocumentRoot
    \/ SchemaChildNode
    \/ Return
    \/ Finish

SpecWords == InitWords /\ [][NextWords]_vars

Spec == SpecTree

\* ------------------------------------------------------------------------
\* Properties of the generic tree
\* ------------------------------------------------------------------------

RECURSIVE SortedSeq(_)
SortedSeq(S) ==
    IF S = {} THEN <<>>
    ELSE LET m == CHOOSE x \in S : \A y \in S : x <= y
         IN  <<m>> \o SortedSeq(S \ {m})

Tags == 1..Len(soup)

Nodes == 1..Len(nodes)

\* The elements the children of node n wrap, in child order.
ChildElements(n) == [i \in 1..Len(nodes[n].children) |-> nodes[nodes[n].children[i]].html]

\* The Tags directly inside element e that carry an id, in document order
\* (Tags are numbered in document order), read off the parent links of the
\* markup.
DirectIdTags(e) == SortedSeq({d \in Tags : soup[d].parent = e /\ soup[d].id # None})

\* C1: in the generic tree (HOCRNode and the compatibility layer's
\* HOCRElement) the children of the node built from an element are exactly
\* the element's direct child Tags that carry an id, in document order, each
\* a node of the parent's class: strings, Tags without id and deeper
\* descendants are never children; tag and class play no part.
C1_ChildrenAreDirectIdTags ==
    pc = "done" =>
        \A n \in Nodes :
            /\ ChildElements(n) = DirectIdTags(nodes[n].html)
            /\ \A i \in 1..Len(nodes[n].children) :
                   nodes[nodes[n].children[i]].cls = nodes[n].cls

\* A finished tree with a node that admitted a child while its element also
\* holds a string and a Tag without id.
C1_Witness ==
    /\ pc = "done"
    /\ \E n \in Nodes :
         LET c == soup[nodes[n].html].contents
         IN  /\ Len(nodes[n].children) >= 1
             /\ \E i \in 1..Len(c) : c[i].kind = "NavigableString"
             /\ \E i \in 1..Len(c) : c[i].kind = "Tag" /\ soup[c[i].el].id = None

\* C3: after construction parent and children links agree: every child's
\* parent is the node that lists it, every node but the root is listed by its
\* parent, and the root is the only node without a parent.
C3_LinksConsistent ==
    pc = "done" =>
        /\ \A n \in Nodes :
              \A i \in 1..Len(nodes[n].children) :
                  /\ nodes[n].children[i] \in Nodes
                  /\ nodes[nodes[n].children[i]].parent = n
        /\ \A n \in Nodes \ {root} :
              /\ nodes[n].parent \in Nodes
              /\ \E i \in 1..Len(nodes[nodes[n].parent].children) :
                     nodes[nodes[n].parent].children[i] = n
        /\ root \in Nodes
        /\ \A n \in Nodes : nodes[n].parent = 0 <=> n = root

\* A finished tree three levels deep whose root has two children.
C3_Witness ==
    /\ pc = "done"
    /\ Len(nodes[root].children) >= 2
    /\ \E n \in Nodes : nodes[n].parent \in Nodes /\ nodes[nodes[n].parent].parent = root

\* C10: construction fails only for a path that cannot be read, then with an
\* I/O error and no tree; a markup string always gives a parser with a root.
C10_FailsOnlyOnUnreadablePath ==
    pc = "raised" =>
        /\ is_path /\ ~readable
        /\ exc = "IOError"
        /\ nodes = <<>> /\ root = 0

\* ------------------------------------------------------------------------
\* Properties of HOCRNode.ocr_text
\* ------------------------------------------------------------------------

HocrRoles == {"ocr_page", "ocr_carea", "ocr_par", "ocr_line"}

\* The separator the text-aggregation table gives the role of node n.
RoleSeparator(n) ==
    IF n = root THEN <<"\n", "\n">>
    ELSE CASE nodes[n].ocr_class = "ocr_page"  -> <<"\n", "\n">>
           [] nodes[n].ocr_class = "ocr_carea" -> <<"\n">>
           [] nodes[n].ocr_class = "ocr_par"   -> <<"\n">>
           [] nodes[n].ocr_class = "ocr_line"  -> <<" ">>

ChildTexts(n) ==
    [i \in 1..Len(nodes[n].children) |-> OcrText(nodes, soup, nodes[n].children[i])]

\* C2: in the tree HOCRParser builds, a node with children has as ocr_text
\* its children's ocr_text joined by the separator of its own role: two line
\* feeds for the Document root and for a Page, one line feed for an Area and
\* a Paragraph, one space for a Line.
C2_JoinedBySeparatorOfRole ==
    pc = "done" =>
        \A n \in Nodes :
            (Len(nodes[n].children) >= 1
             /\ (n = root \/ nodes[n].ocr_class \in HocrRoles))
            => OcrText(nodes, soup, n) = Join(RoleSeparator(n), ChildTexts(n))

\* C8: the document parsed from a path and the one parsed from its prettified
\* form have the same shape, and corresponding nodes have the same ocr_text.
C8_RoundTripSameText ==
    (pc = "done" /\ doc1 # NoDoc) =>
        /\ Len(nodes) = Len(doc1.nodes)
        /\ root = doc1.root
        /\ \A n \in Nodes :
              /\ nodes[n].children = doc1.nodes[n].children
              /\ nodes[n].parent = doc1.nodes[n].parent
              /\ nodes[n].html = doc1.nodes[n].html
              /\ OcrText(nodes, soup, n) = OcrText(doc1.nodes, doc1.soup, n)

\* Both documents are built, the root has children, and a leaf's text is not
\* empty and differs from the raw text of its prettified element.
C8_Witness ==
    /\ pc = "done"
    /\ doc1 # NoDoc
    /\ soup # doc1.soup
    /\ Len(nodes[root].children) >= 1
    /\ \E n \in Nodes :
          /\ nodes[n].children = <<>>
          /\ OcrText(nodes, soup, n) # <<>>
          /\ OcrText(nodes, soup, n) # GetTextUnstripped(soup, nodes[n].html)
          /\ GetTextUnstripped(soup, nodes[n].html)
               # GetTextUnstripped(doc1.soup, nodes[n].html)

\* ------------------------------------------------------------------------
\* Properties of the title parse
\* ------------------------------------------------------------------------

\* C5: node construction never raises, whatever the title: it completes with
\* coordinates a 4-tuple of integers (the default when the bbox numbers cannot
\* be converted) and confidence absent when the samples cannot be converted.
C5_ConstructionNeverRaises ==
    /\ pc # "raised"
    /\ \A n \in Nodes :
          /\ nodes[n].coordinates \in [1..4 -> Int]

\* A number as the claim reads it: an optional sign, digits, an optional
\* fraction.
IsNumber(tok) ==
    LET body == IF tok # <<>> /\ Head(tok) = "-" THEN Tail(tok) ELSE tok
    IN  /\ body # <<>>
        /\ \A i \in 1..Len(body) : body[i] \in Digits \cup {"."}
        /\ Cardinality({i \in 1..Len(body) : body[i] = "."}) <= 1
        /\ body[1] \in Digits

\* The number with its fraction cut off: the digits before the dot, signed.
RECURSIVE IntegerPart(_, _)
IntegerPart(body, acc) ==
    IF body = <<>> \/ Head(body) = "." THEN acc
    ELSE IntegerPart(Tail(body), 10 * acc + DigitVal(Head(body)))

Truncated(tok) ==
    IF Head(tok) = "-" THEN -IntegerPart(Tail(tok), 0) ELSE IntegerPart(tok, 0)

\* The places in the whitespace-separated tokens of a property where the word
\* bbox is followed by four numbers.
BboxPlaces(toks) ==
    {i \in 1..(Len(toks) - 4) :
        toks[i] = BBOX /\ \A k \in 1..4 : IsNumber(toks[i + k])}

\* The letters bbox occur somewhere in the string.
MentionsBbox(s) == \E p \in 1..Len(s) : LiteralAt(s, p, BBOX)

Qualifies(toks) ==
    /\ Len(toks) >= 2
    /\ Lower(toks[1]) \in {<<"n", "l", "p">>, <<"x", "_", "c", "o", "n", "f", "s">>,
                           X_WCONF}
    /\ \A i \in 2..Len(toks) :
          toks[i] # <<>> /\ \A c \in 1..Len(toks[i]) : toks[i][c] \in Digits

RECURSIVE SampleSum(_, _)
SampleSum(toks, i) ==
    IF i > Len(toks) THEN 0 ELSE IntegerPart(toks[i], 0) + SampleSum(toks, i + 1)

\* C7: for a title of one property, confidence is set exactly when the first
\* token is nlp, x_confs or x_wconf in any case, at least one token follows
\* and all that follow are decimal digits; it is then their arithmetic mean,
\* fraction kept.
C7_ConfidenceIsMean ==
    (pc \in {"done", "raised"} /\ variant = "HOCRParser") =>
        \A e \in Tags :
            LET title == soup[e].title
                toks  == SplitWs(title, <<>>)
                built == {n \in Nodes : nodes[n].html = e /\ nodes[n].confidence.set}
            IN  (title # <<>> /\ \A i \in 1..Len(title) : title[i] # ";")
                => /\ (built # {}) <=> (pc = "done" /\ Qualifies(toks))
                   /\ \A n \in built :
                         /\ nodes[n].confidence.den > 0
                         /\ nodes[n].confidence.num * (Len(toks) - 1)
                              = nodes[n].confidence.den * SampleSum(toks, 2)

\* "x_wconf 90 81" gave 85.5.
C7_Witness ==
    /\ pc = "done"
    /\ variant = "HOCRParser"
    /\ \E n \in Nodes :
          /\ nodes[n].confidence = [set |-> TRUE, num |-> 171, den |-> 2]
          /\ soup[nodes[n].html].title = X_WCONF \o <<" ", "9", "0", " ", "8", "1">>

\* ------------------------------------------------------------------------
\* Properties of equality and of the schema tree
\* ------------------------------------------------------------------------

\* C4: any two distinct HOCRElement nodes compare equal if and only if both
\* ids are present and identical; two nodes without id never compare equal.
C4_EqualIffSamePresentId ==
    pc = "done" =>
        \A a, b \in Nodes :
            (a # b /\ nodes[a].cls # "HOCRNode" /\ nodes[b].cls # "HOCRNode") =>
                (Eq(nodes[a], nodes[b]) <=>
                    /\ nodes[a].id # None
                    /\ nodes[b].id # None
                    /\ nodes[a].id = nodes[b].id)

\* The claim's table: the role of the children, and the tag and class of the
\* elements they are built from.
RoleChild(cls) ==
    CASE cls = "HOCRDocument" -> [role |-> "Page", tag |-> "div", class |-> "ocr_page"]
      [] cls = "Page" -> [role |-> "Area", tag |-> "div", class |-> "ocr_carea"]
      [] cls = "Area" -> [role |-> "Paragraph", tag |-> "p", class |-> "ocr_par"]
      [] cls = "Paragraph" -> [role |-> "Line", tag |-> "span", class |-> "ocr_line"]
      [] cls = "Line" -> [role |-> "Word", tag |-> "span", class |-> "ocrx_word"]

\* d lies below e at any depth, by the parent links of the markup.
RECURSIVE Below(_, _)
Below(d, e) ==
    /\ soup[d].parent # 0
    /\ (soup[d].parent = e \/ Below(soup[d].parent, e))

\* The elements below e that carry the tag and class of cls's child role.
RoleMatches(cls, e) ==
    IF cls = "Word" THEN {}
    ELSE {d \in Tags :
            /\ Below(d, e)
            /\ soup[d].tag = RoleChild(cls).tag
            /\ \E i \in 1..Len(soup[d].class) : soup[d].class[i] = RoleChild(cls).class}

\* The nodes on the path from the root to n.
RECURSIVE Depth(_)
Depth(n) == IF nodes[n].parent = 0 THEN 1 ELSE 1 + Depth(nodes[n].parent)

\* C9: in the schema tree the children of a node of role R wrap exactly the
\* elements at any depth below the node's element that carry the tag and
\* class of R's child role, in document order, each a node of that child
\* role; a Word has no children and no path from the root is longer than the
\* six roles.
C9_ChildrenAreRoleMatches ==
    (pc = "done" /\ variant = "HOCRDocument") =>
        \A n \in Nodes :
            /\ ChildElements(n) = SortedSeq(RoleMatches(nodes[n].cls, nodes[n].html))
            /\ \A i \in 1..Len(nodes[n].children) :
                   nodes[nodes[n].children[i]].cls = RoleChild(nodes[n].cls).role
            /\ nodes[n].cls = "Word" => nodes[n].children = <<>>
            /\ Depth(n) <= 6

\* A finished schema tree six roles deep in which a Word's element holds
\* another word element, a Line has a child that is not directly inside the
\* line's element, and an element of another class lies in the markup.
C9_Witness ==
    /\ pc = "done"
    /\ variant = "HOCRDocument"
    /\ \E n \in Nodes :
         /\ nodes[n].cls = "Word"
         /\ Depth(n) = 6
         /\ \E d \in Tags : Below(d, nodes[n].html) /\ soup[d].tag = "span"
                            /\ soup[d].class = <<"ocrx_word">>
    /\ \E n \in Nodes :
         /\ nodes[n].cls = "Line"
         /\ \E i \in 1..Len(nodes[n].children) :
                soup[nodes[nodes[n].children[i]].html].parent # nodes[n].html

\* ------------------------------------------------------------------------
\* Properties of the property scan
\* ------------------------------------------------------------------------

\* The largest member of a non-empty set of numbers.
Last(S) == CHOOSE x \in S : \A y \in S : y <= x

\* C11: the scan over the properties of a title is last-writer-wins for each
\* field on its own: coordinates are those of the last property with a bbox
\* (the default when there is none), confidence is that of the last property
\* that qualifies as a confidence list (absent when there is none); properties
\* that do not match or do not qualify change nothing.
C11_LastWriterWins ==
    (pc = "done" /\ variant = "HOCRParser") =>
        \A n \in Nodes :
            LET props == Properties(soup[nodes[n].html].title)
                toks  == [j \in 1..Len(props) |-> SplitWs(props[j], <<>>)]
                boxes == {j \in 1..Len(props) : BboxPlaces(toks[j]) # {}}
                lists == {j \in 1..Len(props) : Qualifies(toks[j])}
            IN  /\ boxes = {} => nodes[n].coordinates = <<0, 0, 0, 0>>
                /\ boxes # {} =>
                      \E i \in BboxPlaces(toks[Last(boxes)]) :
                          nodes[n].coordinates =
                              [k \in 1..4 |-> Truncated(toks[Last(boxes)][i + k])]
                /\ nodes[n].confidence.set <=> lists # {}
                /\ lists # {} =>
                      nodes[n].confidence.num * (Len(toks[Last(lists)]) - 1)
                          = nodes[n].confidence.den * SampleSum(toks[Last(lists)], 2)

\* A node whose title has two bbox properties with different numbers, the
\* second one winning, and a confidence list followed by a property with a
\* confidence key and a sample that is not digits.
C11_Witness ==
    /\ pc = "done"
    /\ variant = "HOCRParser"
    /\ \E n \in Nodes :
         LET props == Properties(soup[nodes[n].html].title)
         IN  /\ Len(props) = 4
             /\ props[1] = <<"b", "b", "o", "x", " ", "1", " ", "2", " ", "3", " ", "4">>
             /\ props[2] = X_WCONF \o <<" ", "9", "0">>
             /\ Head(props[3]) = "b" /\ props[3] # props[1]
             /\ props[4] = <<"X", "_", "W", "C", "O", "N", "F", " ", "9", "0", " ", "a", "b", "c">>
             /\ nodes[n].coordinates = <<5, -6, 7, 8>>
             /\ nodes[n].confidence = [set |-> TRUE, num |-> 90, den |-> 1]

\* ------------------------------------------------------------------------
\* Properties of the generic tree's text
\* ------------------------------------------------------------------------

NonSpace(s) == SelectSeq(s, LAMBDA c : ~IsSpace(c))

RECURSIVE Concat(_)
Concat(parts) == IF parts = <<>> THEN <<>> ELSE Head(parts) \o Concat(Tail(parts))

\* The text of the markup that the claim lets through below element e: all of
\* it when e has no direct child Tag with an id, otherwise only what those
\* Tags let through.
RECURSIVE AdmittedText(_)
AdmittedText(e) ==
    IF DirectIdTags(e) = <<>> THEN Concat(AllStrings(soup, soup[e].contents))
    ELSE Concat([i \in 1..Len(DirectIdTags(e)) |-> AdmittedText(DirectIdTags(e)[i])])

\* The part of C12 about nodes with children: the letters of the node's
\* ocr_text are those its admitted children let through, in document order.
TextOnlyFromChildren(n) ==
    Len(nodes[n].children) >= 1 =>
        NonSpace(OcrText(nodes, soup, n)) = NonSpace(AdmittedText(nodes[n].html))

\* The part of C12 about nodes without children: the text content of the
\* element, whitespace removed at its two ends.
LeafTextTrimmed(n) ==
    Len(nodes[n].children) = 0 =>
        OcrText(nodes, soup, n) = Strip(GetTextUnstripped(soup, nodes[n].html))

\* C12: in the generic tree a node with an admitted child builds its ocr_text
\* from its admitted children only (text directly inside it and text inside
\* child elements without id are left out); a node without admitted child
\* returns the text content of its element with leading and trailing
\* whitespace removed.
C12_TextFromChildrenOrTrimmedContent ==
    (pc = "done" /\ variant = "HOCRParser") =>
        \A n \in Nodes : TextOnlyFromChildren(n) /\ LeafTextTrimmed(n)

\* The first part of C12 alone.
C12_ChildrenPartHolds ==
    (pc = "done" /\ variant = "HOCRParser") =>
        \A n \in Nodes : TextOnlyFromChildren(n)

\* ------------------------------------------------------------------------
\* Properties of the schema tree's ownership of elements
\* ------------------------------------------------------------------------

\* How often the letter c stands in s.
Occurrences(s, c) == Cardinality({i \in 1..Len(s) : s[i] = c})

\* The Word elements that hold one text of their own and nothing else.
WordElementsWithText ==
    {e \in Tags : /\ soup[e].tag = "span"
                  /\ soup[e].class = <<"ocrx_word">>
                  /\ Len(soup[e].contents) = 1
                  /\ soup[e].contents[1].kind = "NavigableString"}

\* C13: in the schema tree every markup element is wrapped by at most one
\* node, also where an element lies inside another of its own role, so the
\* text of a Word element that the tree wraps stands exactly once in the
\* Document's ocr_text.
C13_ElementsWrappedOnce ==
    (pc = "done" /\ variant = "HOCRDocument") =>
        /\ \A a, b \in Nodes : a # b => nodes[a].html # nodes[b].html
        /\ \A e \in WordElementsWithText :
              (\E n \in Nodes : nodes[n].html = e) =>
                  Occurrences(SchemaOcrText(nodes, soup, root),
                              soup[e].contents[1].str[1]) = 1

====
